---- MODULE Spec2Model ----
(***************************************************************************)
(* update-color-tokens.py: a batch rewriter that walks the cost-plan       *)
(* component tree and replaces hard-coded hex colours inside quoted        *)
(* strings by CSS design tokens.                                           *)
(*                                                                         *)
(* Text is a sequence of one-character strings.  A path is a sequence of   *)
(* segments and a segment is the sequence of the pieces of its name        *)
(* between dots: "types.d.ts" is <<"types","d","ts">>, ".next" is          *)
(* <<"","next">>.                                                          *)
(*                                                                         *)
(* Two specifications:                                                     *)
(*   Spec      a run of main() over a tree of files, with I/O failures,    *)
(*             followed by further runs over the resulting tree;           *)
(*   TextSpec  the replacement loop of process_file, one mapping rule per  *)
(*             step, over every text built from a few pieces.              *)
(***************************************************************************)
EXTENDS Integers, Sequences, FiniteSets, TLC

\* ------------------------------------------------------------------ bounds
\* files in the tree
MaxFiles == 2
\* runs of main() in a row
MaxRuns == 2
\* I/O failures in one behaviour
MaxFaults == 1
\* pieces a text of TextSpec is built from
MaxPieces == 5

\* ------------------------------------------------------------ the table
COLOR_MAPPINGS ==
    << [hex_color |-> <<"#","1","e","1","e","1","e">>,
        token |-> <<"v","a","r","(","-","-","c","o","l","o","r","-","b","g","-","p","r","i","m","a","r","y",")">>],
       [hex_color |-> <<"#","2","5","2","5","2","6">>,
        token |-> <<"v","a","r","(","-","-","c","o","l","o","r","-","b","g","-","s","e","c","o","n","d","a","r","y",")">>],
       [hex_color |-> <<"#","2","a","2","d","2","e">>,
        token |-> <<"v","a","r","(","-","-","c","o","l","o","r","-","b","g","-","t","e","r","t","i","a","r","y",")">>],
       [hex_color |-> <<"#","3","e","3","e","4","2">>,
        token |-> <<"v","a","r","(","-","-","c","o","l","o","r","-","b","o","r","d","e","r",")">>],
       [hex_color |-> <<"#","c","c","c","c","c","c">>,
        token |-> <<"v","a","r","(","-","-","c","o","l","o","r","-","t","e","x","t","-","p","r","i","m","a","r","y",")">>],
       [hex_color |-> <<"#","8","5","8","5","8","5">>,
        token |-> <<"v","a","r","(","-","-","c","o","l","o","r","-","t","e","x","t","-","m","u","t","e","d",")">>],
       [hex_color |-> <<"#","8","0","8","0","8","0">>,
        token |-> <<"v","a","r","(","-","-","c","o","l","o","r","-","t","e","x","t","-","m","u","t","e","d",")">>],
       [hex_color |-> <<"#","a","a","a","a","a","a">>,
        token |-> <<"v","a","r","(","-","-","c","o","l","o","r","-","t","e","x","t","-","s","e","c","o","n","d","a","r","y",")">>],
       [hex_color |-> <<"#","0","0","7","a","c","c">>,
        token |-> <<"v","a","r","(","-","-","c","o","l","o","r","-","a","c","c","e","n","t","-","g","r","e","e","n",")">>],
       [hex_color |-> <<"#","0","e","6","3","9","c">>,
        token |-> <<"v","a","r","(","-","-","c","o","l","o","r","-","a","c","c","e","n","t","-","g","r","e","e","n",")">>],
       [hex_color |-> <<"#","4","f","c","1","f","f">>,
        token |-> <<"v","a","r","(","-","-","c","o","l","o","r","-","a","c","c","e","n","t","-","t","e","a","l",")">>],
       [hex_color |-> <<"#","f","f","a","7","2","6">>,
        token |-> <<"v","a","r","(","-","-","c","o","l","o","r","-","a","c","c","e","n","t","-","y","e","l","l","o","w",")">>],
       [hex_color |-> <<"#","f","1","4","c","4","c">>,
        token |-> <<"v","a","r","(","-","-","c","o","l","o","r","-","a","c","c","e","n","t","-","c","o","r","a","l",")">>] >>

NumRules == Len(COLOR_MAPPINGS)

\* ------------------------------------------------------- re.sub, line 39
Min(S) == CHOOSE x \in S : \A y \in S : x <= y

\* flags=re.IGNORECASE: the pattern's letters are a..f
Lower(ch) ==
    CASE ch = "A" -> "a" [] ch = "B" -> "b" [] ch = "C" -> "c"
      [] ch = "D" -> "d" [] ch = "E" -> "e" [] ch = "F" -> "f"
      [] OTHER -> ch

\* ["\']
IsQuote(ch) == ch \in {"\"", "'"}

\* group 2, ({hex_color}), matches at position i
HexAt(c, i, hex) ==
    /\ i + Len(hex) - 1 <= Len(c)
    /\ \A d \in 1..Len(hex) : Lower(c[i + d - 1]) = Lower(hex[d])

\* .*? : any characters but a newline (no DOTALL)
NoNewline(c, a, b) == \A p \in a..b : c[p] # "\n"

\* positions at which group 2 can start for a match that starts at s
HexStarts(c, s, hex) ==
    { i \in (s + 1)..Len(c) :
        /\ HexAt(c, i, hex)
        /\ NoNewline(c, s + 1, i - 1)
        /\ \E j \in (i + Len(hex))..Len(c) :
              IsQuote(c[j]) /\ NoNewline(c, i + Len(hex), j - 1) }

\* the match that starts at s: both .*? are lazy, so group 2 is the first
\* candidate and the closing quote is the first one after it
MatchAt(c, s, hex) ==
    LET i == Min(HexStarts(c, s, hex))
        j == Min({ q \in (i + Len(hex))..Len(c) : IsQuote(c[q]) })
    IN  [s |-> s, i |-> i, j |-> j]

HasMatchAt(c, s, hex) == IsQuote(c[s]) /\ HexStarts(c, s, hex) # {}

\* the non-overlapping matches re.sub finds scanning from pos, left to right
RECURSIVE Scan(_, _, _)
Scan(c, pos, hex) ==
    LET S == { s \in pos..Len(c) : HasMatchAt(c, s, hex) }
    IN  IF S = {} THEN << >>
        ELSE LET m == MatchAt(c, Min(S), hex)
             IN  <<m>> \o Scan(c, m.j + 1, hex)

\* \1{token}\3 for every match, the text between matches kept
RECURSIVE Rebuild(_, _, _, _, _)
Rebuild(c, pos, ms, hex, token) ==
    IF ms = << >> THEN SubSeq(c, pos, Len(c))
    ELSE LET m == Head(ms)
         IN  SubSeq(c, pos, m.i - 1) \o token
               \o SubSeq(c, m.i + Len(hex), m.j)
               \o Rebuild(c, m.j + 1, Tail(ms), hex, token)

Sub(c, hex, token) == Rebuild(c, 1, Scan(c, 1, hex), hex, token)

\* the for loop of lines 37-44 from rule k on
RECURSIVE ApplyFrom(_, _)
ApplyFrom(c, k) ==
    IF k > NumRules THEN c
    ELSE ApplyFrom(Sub(c, COLOR_MAPPINGS[k].hex_color, COLOR_MAPPINGS[k].token), k + 1)

ApplyMappings(c) == ApplyFrom(c, 1)

\* ------------------------------------------------------------------ texts
PQuote   == <<"\"">>
PApos    == <<"'">>
PNewline == <<"\n">>
PSpace   == <<" ">>
PDigit   == <<"0">>
PHex     == <<"#","1","e","1","e","1","e">>
PHexCase == <<"#","1","E","1","e","1","E">>
PShort   == <<"#","1","e","1","e","1">>
POther   == <<"#","c","c","c","c","c","c">>

Pieces == {PQuote, PApos, PNewline, PDigit, PHex, PHexCase, PShort, POther}

RECURSIVE Flatten(_)
Flatten(ps) == IF ps = << >> THEN << >> ELSE Head(ps) \o Flatten(Tail(ps))

\* the texts built from at most max pieces
Texts(max) == { Flatten(ps) : ps \in UNION { [1..n -> Pieces] : n \in 0..max } }

\* the file contents of Spec
NoColor       == Flatten(<<PQuote, PDigit, PQuote>>)
RepeatedColor == Flatten(<<PQuote, PHex, PSpace, PHex, PQuote>>)

FileContents == {NoColor, RepeatedColor}

\* ------------------------------------------------------------------ paths
DOT_NEXT     == <<"", "next">>
NODE_MODULES == <<"node_modules">>
DOT_D_TS     == <<"", "d", "ts">>

\* the files a tree is drawn from, relative to base_dir
Catalogue ==
    { << <<"utils", "ts">> >>,
      << <<"types", "d", "ts">> >>,
      << NODE_MODULES, <<"pkg", "tsx">> >>,
      << DOT_NEXT, <<"page", "ts">> >>,
      << <<"next">>, <<"Row", "tsx">> >>,
      << <<"notes", "md">> >> }

Trees == { t \in SUBSET Catalogue : Cardinality(t) <= MaxFiles }

\* Path(__file__).parent
ProgramDirs == { << <<"repo">> >>, << NODE_MODULES, <<"tools">> >> }

VARIABLES
    root_exists,      \* base_dir.exists()
    program_dir,      \* the directory of the script
    disk,             \* the files under base_dir and their contents
    pc,               \* position in main()
    pending,          \* what the running rglob has still to yield
    files_processed,
    files_updated,
    output,           \* the lines printed by this run
    log,              \* the calls of process_file of this run, in order
    start_disk,       \* disk when this run started
    run,              \* number of this run
    faults,           \* I/O failures so far
    content,          \* process_file: the buffer
    original_content, \* process_file: what was read
    rule,             \* process_file: index of the next mapping
    before,           \* process_file: the buffer before the last mapping
    t_pc,             \* process_file: position
    changed           \* process_file: content != original_content

run_vars  == <<root_exists, program_dir, disk, pc, pending, files_processed,
               files_updated, output, log, start_disk, run, faults>>
text_vars == <<content, original_content, rule, before, t_pc, changed>>
vars      == <<run_vars, text_vars>>

Name(file_path) == file_path[Len(file_path)]

\* base_dir, line 58
base_dir ==
    program_dir \o << <<"assemble", "ai">>, <<"src">>, <<"components">>, <<"cost-plan">> >>

\* file_path.parts
Parts(file_path) == base_dir \o file_path

\* file_path.suffix: from the last dot of the name, "" when that dot is the
\* first or the last character
Suffix(name) ==
    IF /\ Len(name) >= 2
       /\ name[Len(name)] # ""
       /\ ~(Len(name) = 2 /\ name[1] = "")
    THEN <<"", name[Len(name)]>>
    ELSE <<"">>

\* the pattern '*.' + ext on the name
GlobMatch(name, ext) == Len(name) >= 2 /\ name[Len(name)] = ext

rglob(ext) == { f \in DOMAIN disk : GlobMatch(Name(f), ext) }

In(seg, parts) == \E n \in 1..Len(parts) : parts[n] = seg

\* line 70
SkipTsxNextOnly(file_path) == In(DOT_NEXT, Parts(file_path))

SkipTsx(file_path) ==
    In(DOT_NEXT, Parts(file_path)) \/ In(NODE_MODULES, Parts(file_path))

\* lines 80-82
SkipTs(file_path) ==
    \/ In(DOT_NEXT, Parts(file_path))
    \/ In(NODE_MODULES, Parts(file_path))
    \/ Suffix(Name(file_path)) = DOT_D_TS

\* ----------------------------------------------------------- process_file
Outcome(fault, new, result, w_opens, after, raised) ==
    [fault |-> fault, computed |-> new, result |-> result,
     error |-> fault # "none", w_opens |-> w_opens, after |-> after,
     raised |-> raised]

ProperPrefixes(c) == { SubSeq(c, 1, n) : n \in 0..(Len(c) - 1) }

\* without the try/except of lines 30 and 52
process_file_uncaught(c) ==
    LET new == ApplyMappings(c)
    IN  {Outcome("read", c, FALSE, 0, c, TRUE)}
        \cup (IF new # c
              THEN {Outcome("none", new, TRUE, 1, new, FALSE),
                    Outcome("open", new, FALSE, 0, c, TRUE)}
                   \cup { Outcome("write", new, FALSE, 1, p, TRUE) :
                            p \in ProperPrefixes(new) }
              ELSE {Outcome("none", new, FALSE, 0, c, FALSE)})

\* with the test of line 47 left out: the file is always written
process_file_always_writes(c) ==
    LET new == ApplyMappings(c)
    IN  {Outcome("read", c, FALSE, 0, c, FALSE),
         Outcome("none", new, TRUE, 1, new, FALSE),
         Outcome("open", new, FALSE, 0, c, FALSE)}
        \cup { Outcome("write", new, FALSE, 1, p, FALSE) :
                 p \in ProperPrefixes(new) }

\* what one call on a file of content c can do:
\*   the read fails (open or decode), nothing is written;
\*   no mapping changes the content, nothing is written;
\*   the content changes and the write succeeds;
\*   the content changes and open(..., 'w') fails, the file is as it was;
\*   the content changes and f.write or the close fails after open(..., 'w')
\*   truncated the file, which keeps what reached the disk.
process_file(c) ==
    LET new == ApplyMappings(c)
    IN  {Outcome("read", c, FALSE, 0, c, FALSE)}
        \cup (IF new # c
              THEN {Outcome("none", new, TRUE, 1, new, FALSE),
                    Outcome("open", new, FALSE, 0, c, FALSE)}
                   \cup { Outcome("write", new, FALSE, 1, p, FALSE) :
                            p \in ProperPrefixes(new) }
              ELSE {Outcome("none", new, FALSE, 0, c, FALSE)})

\* ------------------------------------------------------------------- main
ErrorLine(file_path)   == [kind |-> "Error processing", path |-> Parts(file_path), n |-> 0]
UpdatedLine(file_path) == [kind |-> "Updated", path |-> file_path, n |-> 0]
NotFoundLine == [kind |-> "Error: Directory not found", path |-> base_dir, n |-> 0]
Summary ==
    << [kind |-> "Processing complete!", path |-> << >>, n |-> 0],
       [kind |-> "Files processed", path |-> << >>, n |-> files_processed],
       [kind |-> "Files updated", path |-> << >>, n |-> files_updated] >>

\* lines 73-76 with the counter of line 75 bumped whatever the call returns
CountAlways(file_path, o) ==
    /\ files_processed' = files_processed + 1
    /\ disk' = [disk EXCEPT ![file_path] = o.after]
    /\ log' = Append(log, [file |-> file_path, read |-> disk[file_path], o |-> o])
    /\ faults' = faults + (IF o.error THEN 1 ELSE 0)
    /\ files_updated' = files_updated + 1
    /\ output' = output
                   \o (IF o.error THEN <<ErrorLine(file_path)>> ELSE << >>)
                   \o (IF o.result THEN <<UpdatedLine(file_path)>> ELSE << >>)
    /\ pc' = pc

\* lines 73-76, and the same code at lines 85-88: count the file, call
\* process_file, count and report an update.  An exception that leaves
\* process_file ends main() with a traceback.
Count(file_path, o) ==
    /\ files_processed' = files_processed + 1
    /\ disk' = [disk EXCEPT ![file_path] = o.after]
    /\ log' = Append(log, [file |-> file_path, read |-> disk[file_path], o |-> o])
    /\ faults' = faults + (IF o.error THEN 1 ELSE 0)
    /\ IF o.raised
       THEN /\ pc' = "crashed"
            /\ UNCHANGED <<files_updated, output>>
       ELSE /\ pc' = pc
            /\ files_updated' = files_updated + (IF o.result THEN 1 ELSE 0)
            /\ output' = output
                   \o (IF o.error THEN <<ErrorLine(file_path)>> ELSE << >>)
                   \o (IF o.result THEN <<UpdatedLine(file_path)>> ELSE << >>)

\* a main() that goes on when base_dir is missing
MainNoReturn ==
    /\ pc = "main"
    /\ pc' = "tsx"
    /\ pending' = rglob("tsx")
    /\ files_processed' = 0
    /\ files_updated' = 0
    /\ output' = IF root_exists THEN output ELSE <<NotFoundLine>>
    /\ UNCHANGED <<root_exists, program_dir, disk, log, start_disk, run, faults, text_vars>>

\* lines 58-66
Main ==
    /\ pc = "main"
    /\ IF root_exists
       THEN /\ pc' = "tsx"
            /\ pending' = rglob("tsx")
            /\ files_processed' = 0
            /\ files_updated' = 0
            /\ UNCHANGED output
       ELSE /\ pc' = "done"
            /\ output' = <<NotFoundLine>>
            /\ UNCHANGED <<pending, files_processed, files_updated>>
    /\ UNCHANGED <<root_exists, program_dir, disk, log, start_disk, run, faults, text_vars>>

\* one iteration of the loop of line 68; rglob yields in no fixed order
ForTsx ==
    /\ pc = "tsx"
    /\ \E file_path \in pending :
          /\ pending' = pending \ {file_path}
          /\ IF SkipTsx(file_path)
             THEN UNCHANGED <<disk, pc, files_processed, files_updated, output, log, faults>>
             ELSE \E o \in process_file(disk[file_path]) :
                     /\ o.error => faults < MaxFaults
                     /\ Count(file_path, o)
    /\ UNCHANGED <<root_exists, program_dir, start_disk, run, text_vars>>

\* the loop of line 68 is exhausted, line 78 starts the second rglob
EndTsx ==
    /\ pc = "tsx"
    /\ pending = {}
    /\ pc' = "ts"
    /\ pending' = rglob("ts")
    /\ UNCHANGED <<root_exists, program_dir, disk, files_processed, files_updated,
                   output, log, start_disk, run, faults, text_vars>>

\* one iteration of the loop of line 78
ForTs ==
    /\ pc = "ts"
    /\ \E file_path \in pending :
          /\ pending' = pending \ {file_path}
          /\ IF SkipTs(file_path)
             THEN UNCHANGED <<disk, pc, files_processed, files_updated, output, log, faults>>
             ELSE \E o \in process_file(disk[file_path]) :
                     /\ o.error => faults < MaxFaults
                     /\ Count(file_path, o)
    /\ UNCHANGED <<root_exists, program_dir, start_disk, run, text_vars>>

\* lines 90-92
Report ==
    /\ pc = "ts"
    /\ pending = {}
    /\ pc' = "done"
    /\ output' = output \o Summary
    /\ UNCHANGED <<root_exists, program_dir, disk, pending, files_processed,
                   files_updated, log, start_disk, run, faults, text_vars>>

\* lines 94-95 again: after a run without I/O failure the script is run once
\* more on the tree as it is now
Rerun ==
    /\ pc = "done"
    /\ run < MaxRuns
    /\ faults = 0
    /\ run' = run + 1
    /\ pc' = "main"
    /\ pending' = {}
    /\ files_processed' = 0
    /\ files_updated' = 0
    /\ output' = << >>
    /\ log' = << >>
    /\ start_disk' = disk
    /\ UNCHANGED <<root_exists, program_dir, disk, faults, text_vars>>

Init ==
    /\ root_exists \in BOOLEAN
    /\ program_dir \in ProgramDirs
    /\ \E tree \in Trees :
          /\ ~root_exists => tree = {}
          /\ disk \in [tree -> FileContents]
    /\ start_disk = disk
    /\ pc = "main"
    /\ pending = {}
    /\ files_processed = 0
    /\ files_updated = 0
    /\ output = << >>
    /\ log = << >>
    /\ run = 1
    /\ faults = 0
    /\ content = << >>
    /\ original_content = << >>
    /\ rule = 0
    /\ before = << >>
    /\ t_pc = "idle"
    /\ changed = FALSE

Next == Main \/ ForTsx \/ EndTsx \/ ForTs \/ Report \/ Rerun

Spec == Init /\ [][Next]_vars

\* ------------------------------------------- the loop of process_file alone
TextInit ==
    /\ content \in Texts(MaxPieces)
    /\ original_content = content
    /\ before = content
    /\ rule = 1
    /\ t_pc = "loop"
    /\ changed = FALSE
    /\ root_exists = TRUE
    /\ program_dir = << <<"repo">> >>
    /\ disk = << >>
    /\ start_disk = << >>
    /\ pc = "process_file"
    /\ pending = {}
    /\ files_processed = 0
    /\ files_updated = 0
    /\ output = << >>
    /\ log = << >>
    /\ run = 1
    /\ faults = 0

\* lines 37-44, one mapping
ApplyRule ==
    /\ t_pc = "loop"
    /\ rule <= NumRules
    /\ before' = content
    /\ content' = Sub(content, COLOR_MAPPINGS[rule].hex_color, COLOR_MAPPINGS[rule].token)
    /\ rule' = rule + 1
    /\ UNCHANGED <<original_content, t_pc, changed, run_vars>>

\* lines 46-51
Compare ==
    /\ t_pc = "loop"
    /\ rule > NumRules
    /\ t_pc' = "returned"
    /\ changed' = (content # original_content)
    /\ UNCHANGED <<content, original_content, rule, before, run_vars>>

TextNext == ApplyRule \/ Compare

TextSpec == TextInit /\ [][TextNext]_vars

\* ------------------------------------------------------------- properties
Lines == { output[n] : n \in 1..Len(output) }

\* the name ends with ".d.ts"
IsDeclarations(name) ==
    Len(name) >= 3 /\ name[Len(name) - 1] = "d" /\ name[Len(name)] = "ts"

HasExcludedSegment(parts) ==
    \E n \in 1..Len(parts) : parts[n] \in {DOT_NEXT, NODE_MODULES}

\* the files the two passes are to process
Eligible ==
    { f \in DOMAIN disk :
        /\ ~HasExcludedSegment(Parts(f))
        /\ \/ GlobMatch(Name(f), "tsx")
           \/ GlobMatch(Name(f), "ts") /\ ~IsDeclarations(Name(f)) }

IsHexDigit(ch) ==
    Lower(ch) \in {"0","1","2","3","4","5","6","7","8","9","a","b","c","d","e","f"}

\* the quote character of the string that is open just before position p of
\* its line, "" when none is
RECURSIVE OpenQuote(_, _)
OpenQuote(c, p) ==
    IF p = 1 THEN ""
    ELSE LET q  == OpenQuote(c, p - 1)
             ch == c[p - 1]
         IN  IF ch = "\n" THEN ""
             ELSE IF q = "" THEN (IF IsQuote(ch) THEN ch ELSE "")
             ELSE IF ch = q THEN "" ELSE q

\* the n characters from position i lie inside a string that is opened and
\* closed by the same quote character on that line
InsideQuotedSpan(c, i, n) ==
    LET q == OpenQuote(c, i)
    IN  /\ q # ""
        /\ \E j \in (i + n)..Len(c) : c[j] = q /\ NoNewline(c, i + n, j - 1)

Occurrences(c, hex) == { i \in 1..Len(c) : HexAt(c, i, hex) }

\* the mapping the last step of the loop applied
LastHex == COLOR_MAPPINGS[rule - 1].hex_color

\* C1: after a complete run, a further run on the resulting tree updates no
\* file and writes no file.
C1_SecondRunUpdatesNothing ==
    (run >= 2 /\ faults = 0) =>
        /\ files_updated = 0
        /\ \A n \in 1..Len(log) : log[n].o.w_opens = 0

\* C2: a file whose name ends with ".d.ts" is never handed to process_file
\* and its content is never changed.
C2_DeclarationsSkipped ==
    /\ \A n \in 1..Len(log) : ~IsDeclarations(Name(log[n].file))
    /\ \A f \in DOMAIN disk : IsDeclarations(Name(f)) => disk[f] = start_disk[f]

\* C3: what a mapping rule replaces lies inside a quoted string span: every
\* match of the rule has its literal inside one, and the occurrences outside
\* any span are still there after the rule.
C3_OnlyQuotedReplaced ==
    (t_pc = "loop" /\ rule > 1) =>
        LET ms == Scan(before, 1, LastHex)
            outside == { i \in Occurrences(before, LastHex) :
                           ~InsideQuotedSpan(before, i, Len(LastHex)) }
        IN  /\ \A n \in 1..Len(ms) : InsideQuotedSpan(before, ms[n].i, Len(LastHex))
            /\ Cardinality(Occurrences(content, LastHex)) >= Cardinality(outside)

\* C4: a text in which the 6-digit value of a rule occurs only as the start
\* of a literal with one more hex digit (or not at all, as when a digit is
\* missing) is left unchanged by that rule.
C4_ExactMatchOnly ==
    (t_pc = "loop" /\ rule > 1) =>
        LET n == Len(LastHex)
            extra(i) == /\ i + n <= Len(before)
                        /\ IsHexDigit(before[i + n])
                        /\ (i + n + 1 <= Len(before) => ~IsHexDigit(before[i + n + 1]))
        IN  (\A i \in Occurrences(before, LastHex) : extra(i)) => content = before

\* C5 as stated: a processed file is counted as updated exactly when the
\* content after all mappings differs from the content read, and exactly then
\* it is written once.
C5_UpdatedIffChanged ==
    /\ files_updated = Cardinality({ n \in 1..Len(log) : log[n].o.result })
    /\ \A n \in 1..Len(log) :
          LET e == log[n]
          IN  e.o.fault # "read" =>
                /\ e.o.result <=> (e.o.computed # e.read)
                /\ e.o.computed # e.read => (e.o.w_opens = 1 /\ e.o.after = e.o.computed)
                /\ e.o.computed = e.read => e.o.w_opens = 0

\* C5 amended: a processed file is counted as updated exactly when its read
\* succeeds, the content after all mappings differs from the content read and
\* the write-back completes; then it was written once, completely.  A file
\* whose read fails or whose content does not differ is never opened for
\* writing; no file is opened for writing more than once in a run.
C5_UpdatedIffChangedAndWritten ==
    /\ files_updated = Cardinality({ n \in 1..Len(log) : log[n].o.result })
    /\ \A n \in 1..Len(log) :
          LET e == log[n]
          IN  /\ e.o.result <=> (e.o.fault = "none" /\ e.o.computed # e.read)
              /\ e.o.result => (e.o.w_opens = 1 /\ disk[e.file] = e.o.computed)
              /\ (e.o.fault = "read" \/ e.o.computed = e.read) =>
                    (e.o.w_opens = 0 /\ disk[e.file] = e.read)
              /\ e.o.w_opens <= 1
    /\ \A m, n \in 1..Len(log) : log[m].file = log[n].file => m = n

C5_Witness ==
    /\ pc = "done"
    /\ \E m, n \in 1..Len(log) :
          /\ log[m].o.result
          /\ log[n].o.fault = "write"
          /\ log[n].o.computed # log[n].read

\* C6: files_updated never exceeds files_processed and equals the number of
\* "Updated:" lines printed so far.
C6_CounterCorrect ==
    /\ files_updated <= files_processed
    /\ files_updated = Cardinality({ n \in 1..Len(output) : output[n].kind = "Updated" })

C6_Witness ==
    /\ pc = "done"
    /\ files_updated >= 1
    /\ files_processed > files_updated

\* C7: a failure on one file does not end the run: no exception leaves
\* process_file, the failed file is counted as processed and not as updated,
\* and a finished run has processed every eligible file and printed the
\* summary.
C7_FailureRecoverable ==
    /\ pc # "crashed"
    /\ files_processed = Len(log)
    /\ \A n \in 1..Len(log) :
          log[n].o.error =>
             /\ ~log[n].o.result
             /\ UpdatedLine(log[n].file) \notin Lines
             /\ ErrorLine(log[n].file) \in Lines
    /\ files_updated = Cardinality({ n \in 1..Len(log) : ~log[n].o.error /\ log[n].o.result })
    /\ (pc = "done" /\ root_exists) =>
          /\ Eligible \subseteq { log[n].file : n \in 1..Len(log) }
          /\ Len(output) >= 3
          /\ SubSeq(output, Len(output) - 2, Len(output)) = Summary

C7_Witness ==
    /\ pc = "done"
    /\ \E m, n \in 1..Len(log) :
          /\ m < n
          /\ log[m].o.error
          /\ log[n].o.result

\* C8: a file with a path segment ".next" or "node_modules" is never handed
\* to process_file, keeps its content, is named in no printed line, and no
\* counter moves without a call of process_file.
C8_ExcludedNeverTouched ==
    /\ files_processed = Cardinality({ log[n].file : n \in 1..Len(log) })
    /\ \A f \in DOMAIN disk :
          HasExcludedSegment(Parts(f)) =>
             /\ \A n \in 1..Len(log) : log[n].file # f
             /\ disk[f] = start_disk[f]
             /\ \A n \in 1..Len(output) : output[n].path \notin {f, Parts(f)}

C8_Witness ==
    /\ pc = "done"
    /\ files_updated >= 1
    /\ \E f \in DOMAIN disk :
          /\ HasExcludedSegment(Parts(f))
          /\ GlobMatch(Name(f), "tsx")
          /\ disk[f] = RepeatedColor

\* C9: with the root directory missing the run prints the one diagnostic and
\* returns; no file is enumerated or handed to process_file and no summary
\* line is printed.
C9_MissingRootFatal ==
    ~root_exists =>
        /\ pc \in {"main", "done"}
        /\ log = << >>
        /\ pending = {}
        /\ disk = start_disk
        /\ output = IF pc = "main" THEN << >> ELSE <<NotFoundLine>>

C9_Witness == ~root_exists /\ pc = "done"

\* C10: at the end of a run, a file for which process_file returned False
\* has the content it had when the run started.
C10_NonUpdateLeavesFile ==
    pc = "done" =>
        \A n \in 1..Len(log) :
            ~log[n].o.result => disk[log[n].file] = start_disk[log[n].file]
====
